---- MODULE Spec2Model ----
(***************************************************************************)
(* M/M/1/K queue simulation (mm1k.py).                                     *)
(*                                                                         *)
(* run_simulation builds a simpy Environment and a capacity-1 Resource,    *)
(* starts the arrival generator `source`, which spawns one `packet`        *)
(* process per customer, and runs the event loop until the event queue is  *)
(* empty.  The model has one action per event the loop dispatches; the     *)
(* first step of a packet is split at its admission test so that the       *)
(* tentative occupancy is a state.                                         *)
(*                                                                         *)
(* simpy's event queue is a heap ordered by (time, priority, event id);    *)
(* event ids grow with every schedule call, so the queue is modelled as a  *)
(* sequence sorted by (time, priority) in which a new event is inserted    *)
(* behind every event of the same time and priority.                       *)
(***************************************************************************)
EXTENDS Integers, Sequences, FiniteSets, TLC

\* ---- bounds of the model ------------------------------------------------
MaxN == 5          \* num_packets ranges over 0..MaxN
MaxK == 2          \* system_capacity ranges over 0..MaxK

\* Time is measured in units of the mean interarrival time; the mean service
\* time is as long (load 1) or four times as long (overload, services that
\* outlast several arrivals).
MeanIaVals == {1}
MeanSrvVals == {1, 4}

\* The unit exponential variates the seeded generator can produce:
\* random.expovariate(1.0 / mean) is mean times a unit variate.  0 makes
\* events coincide, 1 separates them.
Variates == {0, 1}

\* ---- program constants ---------------------------------------------------
capacity == 1      \* simpy.Resource(env, capacity=1)
URGENT == 0        \* priority of a process's Initialize event
NORMAL == 1        \* priority of every other event

VARIABLES
    system_capacity,  \* K, parameter of the run
    num_packets,      \* N, parameter of the run
    trace,            \* the trace flag, parameter of the run
    mean_ia_time,     \* parameter of the run
    mean_srv_time,    \* parameter of the run
    stream,           \* the variates the seeded generator has produced, one
                      \* [ia, srv] pair of unit variates per loop iteration
    now,              \* env.now
    queue,            \* the environment's event queue
    srcpc,            \* position of the arrival generator
    pc,               \* position of each packet process
    arrv_time,        \* arrv_time of each packet that has arrived
    service_time,     \* service_time of each packet that was created
    left_time,        \* env.now when each finished packet's process ended
    waiting,          \* len(waiting)
    loss,             \* len(loss)
    wait_times,       \* the list wait_times
    grants,           \* who resumed from yield request, and when, one entry
                      \* per entry of wait_times
    foundFree,        \* the packets that called server.request() while the
                      \* server had no holder and no request in its line
    users,            \* server.users
    put_queue,        \* server.put_queue
    phase,            \* "running" until env.run() has returned
    result,           \* what run_simulation returned
    prev,             \* parameters and result of the previous call
    theory            \* the driver's computation of the theoretical
                      \* blocking probability

params == <<system_capacity, num_packets, trace, mean_ia_time, mean_srv_time>>
simstate == <<now, queue, srcpc, pc, arrv_time, service_time, left_time,
              waiting, loss, wait_times, grants, foundFree, users, put_queue, phase,
              result>>
vars == <<params, stream, simstate, prev, theory>>

Packets == 0 .. (num_packets - 1)

\* ---- the event queue -----------------------------------------------------
Ev(t, p, k, w) == [time |-> t, prio |-> p, kind |-> k, who |-> w]

\* (time, priority) order of the heap; among equals the older event wins.
Precedes(e, f) == e.time < f.time \/ (e.time = f.time /\ e.prio <= f.prio)

\* env.schedule: push the event; it is popped after every queued event that
\* precedes it.
schedule(q, ev) ==
    LET n == Cardinality({k \in 1 .. Len(q) : Precedes(q[k], ev)})
    IN  SubSeq(q, 1, n) \o <<ev>> \o SubSeq(q, n + 1, Len(q))

RECURSIVE Sum(_)
Sum(s) == IF s = <<>> THEN 0 ELSE Head(s) + Sum(Tail(s))

\* np.mean as a fraction; 0/0 is the NaN numpy returns for an empty list.
mean(s) == [num |-> Sum(s), den |-> Len(s)]

\* ---- the server resource -------------------------------------------------
trigger_putLast(r, t) ==
    IF r.put_queue # <<>> /\ Len(r.users) < capacity
    THEN LET n == Len(r.put_queue)
         IN  [users     |-> Append(r.users, r.put_queue[n]),
              put_queue |-> SubSeq(r.put_queue, 1, n - 1),
              queue     |-> schedule(r.queue, Ev(t, NORMAL, "request", r.put_queue[n]))]
    ELSE r

trigger_putUnchecked(r, t) ==
    IF r.put_queue # <<>>
    THEN [users     |-> Append(r.users, Head(r.put_queue)),
          put_queue |-> Tail(r.put_queue),
          queue     |-> schedule(r.queue, Ev(t, NORMAL, "request", Head(r.put_queue)))]
    ELSE r

\* Resource._trigger_put with Resource._do_put: the request at the head of
\* put_queue takes a free slot and its event is scheduled.
trigger_put(r, t) ==
    IF r.put_queue # <<>> /\ Len(r.users) < capacity
    THEN [users     |-> Append(r.users, Head(r.put_queue)),
          put_queue |-> Tail(r.put_queue),
          queue     |-> schedule(r.queue, Ev(t, NORMAL, "request", Head(r.put_queue)))]
    ELSE r

\* server.request(): the request joins put_queue, then _trigger_put runs.
request(j, t) ==
    trigger_put([users |-> users, put_queue |-> Append(put_queue, j), queue |-> queue], t)

releaseKeeps(us, j) == us

\* Resource._do_get for a Release: the request leaves users.
release(us, j) == SelectSeq(us, LAMBDA u : u # j)

\* ---- one call of run_simulation -----------------------------------------
NoRun == [valid |-> FALSE]

\* The driver has not started to compute a theoretical value.
NoTheory == [stage |-> "idle"]

\* The state run_simulation builds before env.run() for n packets: empty
\* statistics, a free server and the generator's Initialize event queued by
\* env.process(source(...)).
Fresh(n) ==
    [now          |-> 0,
     queue        |-> <<Ev(0, URGENT, "init_src", 0)>>,
     srcpc        |-> "start",
     pc           |-> [j \in 0 .. (n - 1) |-> "unborn"],
     arrv_time    |-> <<>>,
     service_time |-> <<>>,
     left_time    |-> <<>>,
     waiting      |-> 0,
     loss         |-> 0,
     wait_times   |-> <<>>,
     grants       |-> <<>>,
     foundFree    |-> {},
     users        |-> <<>>,
     put_queue    |-> <<>>,
     phase        |-> "running",
     result       |-> [mean |-> mean(<<>>), loss |-> 0]]

InitRun ==
    LET f == Fresh(num_packets)
    IN  /\ now = f.now
        /\ queue = f.queue
        /\ srcpc = f.srcpc
        /\ pc = f.pc
        /\ arrv_time = f.arrv_time
        /\ service_time = f.service_time
        /\ left_time = f.left_time
        /\ waiting = f.waiting
        /\ loss = f.loss
        /\ wait_times = f.wait_times
        /\ grants = f.grants
        /\ foundFree = f.foundFree
        /\ users = f.users
        /\ put_queue = f.put_queue
        /\ phase = f.phase
        /\ result = f.result

Init ==
    /\ system_capacity \in 0 .. MaxK
    /\ num_packets \in 0 .. MaxN
    /\ trace \in BOOLEAN
    /\ mean_ia_time \in MeanIaVals
    /\ mean_srv_time \in MeanSrvVals
    /\ stream = <<>>
    /\ prev = NoRun
    /\ theory = NoTheory
    /\ InitRun

\* No packet is between its arrival and its admission test.
Idle == \A j \in Packets : pc[j] # "arrived"

\* The event loop pops the head of the queue.
Dispatching(kinds) ==
    /\ phase = "running"
    /\ Idle
    /\ queue # <<>>
    /\ Head(queue).kind \in kinds

DrawsUnseeded(j) == [ia : Variates, srv : Variates]

\* The unit variates of loop iteration j: replayed from the stream when the
\* seed has produced them before, new ones otherwise.
Draws(j) ==
    IF j < Len(stream) THEN {stream[j + 1]}
    ELSE [ia : Variates, srv : Variates]

ia_timeOfSrv(d) == mean_srv_time * d.srv

\* ia_time = random.expovariate(1.0 / mean_ia_time)
ia_time(d) == mean_ia_time * d.ia

\* srv_time = random.expovariate(1.0 / mean_srv_time)
srv_time(d) == mean_srv_time * d.srv

InLoopOffByOne(j) == j <= num_packets

\* for i in range(number)
InLoop(j) == j < num_packets

\* One pass of the generator's loop at time t, entered with index j: draw
\* the gap and the service time, spawn packet j and wait for the gap; or
\* leave the loop and finish.
SourceLoop(j, t) ==
    IF InLoop(j)
    THEN \E d \in Draws(j) :
            /\ stream' = IF j < Len(stream) THEN stream ELSE Append(stream, d)
            /\ service_time' = service_time @@ (j :> srv_time(d))
            /\ pc' = [pc EXCEPT ![j] = "spawned"]
            /\ queue' = schedule(schedule(Tail(queue), Ev(t, URGENT, "init_pkt", j)),
                                 Ev(t + ia_time(d), NORMAL, "timeout_src", j))
            /\ srcpc' = "waiting"
    ELSE /\ queue' = schedule(Tail(queue), Ev(t, NORMAL, "end_src", j))
         /\ srcpc' = "done"
         /\ UNCHANGED <<stream, service_time, pc>>

\* The generator's Initialize event: source runs up to its first yield.
StartSource ==
    /\ Dispatching({"init_src"})
    /\ now' = Head(queue).time
    /\ SourceLoop(0, Head(queue).time)
    /\ UNCHANGED <<params, prev, theory, grants, foundFree, arrv_time,
                   left_time, waiting, loss, wait_times, users, put_queue,
                   phase, result>>

\* The generator's timeout: source resumes after yield env.timeout(ia_time).
ResumeSource ==
    /\ Dispatching({"timeout_src"})
    /\ now' = Head(queue).time
    /\ SourceLoop(Head(queue).who + 1, Head(queue).time)
    /\ UNCHANGED <<params, prev, theory, grants, foundFree, arrv_time,
                   left_time, waiting, loss, wait_times, users, put_queue,
                   phase, result>>

\* A packet's Initialize event: the packet notes its arrival time and counts
\* itself in.
PacketArrive ==
    /\ Dispatching({"init_pkt"})
    /\ LET j == Head(queue).who
           t == Head(queue).time
       IN  /\ now' = t
           /\ queue' = Tail(queue)
           /\ arrv_time' = arrv_time @@ (j :> t)
           /\ waiting' = waiting + 1
           /\ pc' = [pc EXCEPT ![j] = "arrived"]
    /\ UNCHANGED <<params, prev, theory, grants, foundFree, stream, srcpc,
                   service_time, left_time, loss, wait_times, users,
                   put_queue, phase, result>>

poppedNot(w) == w

\* waiting.pop(): one entry less in the list
popped(w) == w - 1

FullLate == waiting > system_capacity + 1

FullOffByOne == waiting >= system_capacity

FullInverted == waiting <= system_capacity

\* if len(waiting) > system_capacity: the admission test of the packet that
\* has just counted itself in.
Full == waiting > system_capacity

\* The packet is over capacity: it uncounts itself, records a loss and ends.
PacketDrop ==
    /\ phase = "running"
    /\ \E j \in Packets :
        /\ pc[j] = "arrived"
        /\ trace
        /\ Full
        /\ waiting' = popped(waiting)
        /\ loss' = loss + 1
        /\ pc' = [pc EXCEPT ![j] = "dropped"]
        /\ left_time' = left_time @@ (j :> now)
        /\ queue' = schedule(queue, Ev(now, NORMAL, "end_pkt", j))
    /\ UNCHANGED <<params, prev, theory, grants, foundFree, stream, now,
                   srcpc, arrv_time, service_time, wait_times, users,
                   put_queue, phase, result>>

\* The packet is admitted: it requests the server and waits for the grant.
PacketRequest ==
    /\ phase = "running"
    /\ \E j \in Packets :
        /\ pc[j] = "arrived"
        /\ trace
        /\ ~Full
        /\ LET r == request(j, now)
           IN  /\ users' = r.users
               /\ put_queue' = r.put_queue
               /\ queue' = r.queue
        /\ pc' = [pc EXCEPT ![j] = "queued"]
        /\ foundFree' = IF users = <<>> /\ put_queue = <<>>
                        THEN foundFree \cup {j} ELSE foundFree
    /\ UNCHANGED <<params, prev, theory, grants, stream, now, srcpc,
                   arrv_time, service_time, left_time, waiting, loss,
                   wait_times, phase, result>>

\* Without trace the packet does nothing after counting itself in.
PacketSkip ==
    /\ phase = "running"
    /\ \E j \in Packets :
        /\ pc[j] = "arrived"
        /\ ~trace
        /\ pc' = [pc EXCEPT ![j] = "ended"]
        /\ left_time' = left_time @@ (j :> now)
        /\ queue' = schedule(queue, Ev(now, NORMAL, "end_pkt", j))
    /\ UNCHANGED <<params, prev, theory, grants, foundFree, stream, now,
                   srcpc, arrv_time, service_time, waiting, loss, wait_times,
                   users, put_queue, phase, result>>

wait_timeIsNow(t, j) == t

\* wait_time = env.now - arrv_time
wait_time(t, j) == t - arrv_time[j]

\* The packet's request event: it records its wait and starts its service.
Granted ==
    /\ Dispatching({"request"})
    /\ LET j == Head(queue).who
           t == Head(queue).time
       IN  /\ now' = t
           /\ wait_times' = Append(wait_times, wait_time(t, j))
           /\ grants' = Append(grants, [who |-> j, time |-> t])
           /\ pc' = [pc EXCEPT ![j] = "service"]
           /\ queue' = schedule(Tail(queue),
                                Ev(t + service_time[j], NORMAL, "timeout_pkt", j))
    /\ UNCHANGED <<params, prev, theory, foundFree, stream, srcpc, arrv_time,
                   service_time, left_time, waiting, loss, users, put_queue,
                   phase, result>>

\* The packet's service timeout: it uncounts itself, releases the server on
\* leaving the with block and ends.
ServiceDone ==
    /\ Dispatching({"timeout_pkt"})
    /\ LET j == Head(queue).who
           t == Head(queue).time
       IN  /\ now' = t
           /\ waiting' = IF trace THEN popped(waiting) ELSE waiting
           /\ users' = release(users, j)
           /\ queue' = schedule(schedule(Tail(queue), Ev(t, NORMAL, "release", j)),
                                Ev(t, NORMAL, "end_pkt", j))
           /\ pc' = [pc EXCEPT ![j] = "departed"]
           /\ left_time' = left_time @@ (j :> t)
    /\ UNCHANGED <<params, prev, theory, grants, foundFree, stream, srcpc,
                   arrv_time, service_time, loss, wait_times, put_queue,
                   phase, result>>

\* The Release event: its callback _trigger_put grants the next request.
Released ==
    /\ Dispatching({"release"})
    /\ LET t == Head(queue).time
           r == trigger_put([users |-> users, put_queue |-> put_queue,
                             queue |-> Tail(queue)], t)
       IN  /\ now' = t
           /\ users' = r.users
           /\ put_queue' = r.put_queue
           /\ queue' = r.queue
    /\ UNCHANGED <<params, prev, theory, grants, foundFree, stream, srcpc, pc,
                   arrv_time, service_time, left_time, waiting, loss,
                   wait_times, phase, result>>

\* The event of a finished process: nobody waits for it.
ProcEnd ==
    /\ Dispatching({"end_src", "end_pkt"})
    /\ now' = Head(queue).time
    /\ queue' = Tail(queue)
    /\ UNCHANGED <<params, prev, theory, grants, foundFree, stream, srcpc, pc,
                   arrv_time, service_time, left_time, waiting, loss,
                   wait_times, users, put_queue, phase, result>>

\* env.run() finds the queue empty; run_simulation returns the statistics.
Return ==
    /\ phase = "running"
    /\ Idle
    /\ queue = <<>>
    /\ phase' = "returned"
    /\ result' = [mean |-> mean(wait_times), loss |-> loss]
    /\ UNCHANGED <<params, prev, theory, grants, foundFree, stream, now,
                   queue, srcpc, pc, arrv_time, service_time, left_time,
                   waiting, loss, wait_times, users, put_queue>>

Step ==
    \/ StartSource
    \/ ResumeSource
    \/ PacketArrive
    \/ PacketDrop
    \/ PacketRequest
    \/ PacketSkip
    \/ Granted
    \/ ServiceDone
    \/ Released
    \/ ProcEnd

Next == Step \/ Return

Spec == Init /\ [][Next]_vars

\* env.run() keeps dispatching while the queue holds an event.
FairSpec == Spec /\ WF_vars(Next)

\* A second call of run_simulation with the same seed, means and
\* num_packets, capacity k and trace flag tr; the first call's parameters
\* and results are kept in prev.
Recall(k, tr) ==
    /\ phase = "returned"
    /\ prev = NoRun
    /\ prev' = [valid |-> TRUE, system_capacity |-> system_capacity,
                trace |-> trace, loss |-> result.loss, mean |-> result.mean,
                wait_times |-> wait_times, pc |-> pc, grants |-> grants,
                arrv_time |-> arrv_time, left_time |-> left_time, now |-> now,
                runs |-> 1]
    /\ system_capacity' = k
    /\ trace' = tr
    /\ UNCHANGED <<num_packets, mean_ia_time, mean_srv_time, stream, theory>>
    /\ LET f == Fresh(num_packets)
       IN  /\ now' = f.now
           /\ queue' = f.queue
           /\ srcpc' = f.srcpc
           /\ pc' = f.pc
           /\ arrv_time' = f.arrv_time
           /\ service_time' = f.service_time
           /\ left_time' = f.left_time
           /\ waiting' = f.waiting
           /\ loss' = f.loss
           /\ wait_times' = f.wait_times
           /\ grants' = f.grants
           /\ foundFree' = f.foundFree
           /\ users' = f.users
           /\ put_queue' = f.put_queue
           /\ phase' = f.phase
           /\ result' = f.result

\* The driver's sweep over k_list (capacities in increasing order) with one
\* seed.
SweepRerun == \E k \in (system_capacity + 1) .. MaxK : Recall(k, trace)

SweepNext == Next \/ SweepRerun

SweepSpec == Init /\ [][SweepNext]_vars

\* The same call repeated with the trace flag switched.
TraceRerun == Recall(system_capacity, ~trace)

TraceNext == Next \/ TraceRerun

TraceSpec == Init /\ [][TraceNext]_vars

\* A second call with the same parameters and the same seed.
RepeatRun == Recall(system_capacity, trace)

\* A second call with the same seed whose capacity and trace flag both
\* differ from the first call's.
OtherRun == Recall((system_capacity + 1) % (MaxK + 1), ~trace)

\* After such a second call has returned, a third call with the first
\* call's parameters and seed; prev keeps the record of the first call.
RepeatFirst ==
    /\ phase = "returned"
    /\ prev.valid
    /\ prev.runs = 1
    /\ system_capacity # prev.system_capacity
    /\ trace # prev.trace
    /\ prev' = [prev EXCEPT !.runs = 2]
    /\ system_capacity' = prev.system_capacity
    /\ trace' = prev.trace
    /\ UNCHANGED <<num_packets, mean_ia_time, mean_srv_time, stream, theory>>
    /\ LET f == Fresh(num_packets)
       IN  /\ now' = f.now
           /\ queue' = f.queue
           /\ srcpc' = f.srcpc
           /\ pc' = f.pc
           /\ arrv_time' = f.arrv_time
           /\ service_time' = f.service_time
           /\ left_time' = f.left_time
           /\ waiting' = f.waiting
           /\ loss' = f.loss
           /\ wait_times' = f.wait_times
           /\ grants' = f.grants
           /\ foundFree' = f.foundFree
           /\ users' = f.users
           /\ put_queue' = f.put_queue
           /\ phase' = f.phase
           /\ result' = f.result

RepeatNext == Next \/ RepeatRun \/ OtherRun \/ RepeatFirst

\* The repeated calls are made with the longer mean service time, the load
\* under which customers both wait and get lost.
RepeatInit ==
    /\ Init
    /\ mean_srv_time > mean_ia_time

RepeatSpec == RepeatInit /\ [][RepeatNext]_vars

\* run_simulation has no check of its parameters: a call with a negative
\* system_capacity or a negative num_packets is set up like any other.
\* (range(number) is empty for a negative number; len(waiting) > K holds for
\* every length when K is negative.)
CallInit ==
    /\ system_capacity \in -1 .. MaxK
    /\ num_packets \in -1 .. MaxN
    /\ trace \in BOOLEAN
    /\ mean_ia_time \in MeanIaVals
    /\ mean_srv_time \in MeanSrvVals
    /\ stream = <<>>
    /\ prev = NoRun
    /\ theory = NoTheory
    /\ InitRun

CallSpec == CallInit /\ [][Next]_vars

\* Calls with a capacity of up to MaxK + 1, which lets two customers stand in
\* the server's line behind the holder.
LineInit ==
    /\ system_capacity \in 0 .. (MaxK + 1)
    /\ num_packets \in 0 .. MaxN
    /\ trace \in BOOLEAN
    /\ mean_ia_time \in MeanIaVals
    /\ mean_srv_time \in MeanSrvVals
    /\ stream = <<>>
    /\ prev = NoRun
    /\ theory = NoTheory
    /\ InitRun

LineSpec == LineInit /\ [][Next]_vars

\* ---- derived notions used by the properties -----------------------------
InState(S) == {j \in Packets : pc[j] \in S}

Departed == InState({"departed"})

Dropped == InState({"dropped"})

Terminal == InState({"dropped", "departed"})

Returned == phase = "returned"

MaxOf(S) == IF S = {} THEN 0 ELSE CHOOSE y \in S : \A z \in S : z <= y

\* The time at which the last packet was dropped, departed or ended.
LastLeft == MaxOf({left_time[j] : j \in DOMAIN left_time})

\* ---- C1 -------------------------------------------------------------------
\* C1: with tracing enabled the occupancy counter is at most K+1; it is K+1
\* only while a packet is inside its admission step, and the only thing that
\* packet can then do is the drop; it is at most K whenever no packet is
\* inside its admission step (while admitted packets wait or are served) and
\* whenever a packet is about to issue its server request.
C1_OccupancyBound ==
    trace =>
        /\ waiting <= system_capacity + 1
        /\ (waiting = system_capacity + 1 =>
               /\ \E j \in Packets : pc[j] = "arrived"
               /\ ENABLED PacketDrop
               /\ ~ENABLED PacketRequest)
        /\ (Idle => waiting <= system_capacity)
        /\ (ENABLED PacketRequest => waiting <= system_capacity)

\* A packet counted itself in as the (K+1)-th while K >= 1 others are queued
\* or in service.
C1_Witness ==
    /\ trace
    /\ system_capacity >= 1
    /\ waiting = system_capacity + 1
    /\ Cardinality(InState({"queued", "service"})) = system_capacity

\* ---- C2 -------------------------------------------------------------------
\* C2: when a traced run has returned, losses plus departed customers equal
\* num_packets, every customer is dropped or departed, each loss is one
\* dropped customer and each recorded wait one departed customer.
C2_Conservation ==
    (Returned /\ trace) =>
        /\ loss + Cardinality(Departed) = num_packets
        /\ Terminal = Packets
        /\ loss = Cardinality(Dropped)
        /\ Len(wait_times) = Cardinality(Departed)
        /\ result.loss = loss

\* A traced run returned with both losses and several departures.
C2_Witness ==
    /\ Returned
    /\ trace
    /\ loss >= 2
    /\ Cardinality(Departed) >= 2

\* ---- C3 -------------------------------------------------------------------
\* C3: with system_capacity = 0 no customer ever requests or holds the
\* server and no wait is recorded, and when the run has returned every
\* customer was dropped: the loss count is num_packets.
C3_ZeroCapacityDropsAll ==
    system_capacity = 0 =>
        /\ InState({"queued", "service", "departed"}) = {}
        /\ users = <<>> /\ put_queue = <<>>
        /\ wait_times = <<>>
        /\ (Returned => result.loss = num_packets /\ Dropped = Packets)

\* ---- C4 -------------------------------------------------------------------
\* C4 (as claimed): of two calls with the same seed, means and num_packets,
\* the one with the larger capacity never loses more.
C4_Monotone ==
    (Returned /\ prev.valid /\ prev.system_capacity <= system_capacity)
        => result.loss <= prev.loss

\* All customers created so far have the same service duration.
EqualService == \A j, k \in DOMAIN service_time : service_time[j] = service_time[k]

\* C4 (amended): the larger capacity never loses more when the smaller
\* capacity is 0, when the larger is at least num_packets, or when all
\* customers have the same service duration; and in every call a customer's
\* service duration is the variate drawn at its creation, dropped or not.
C4_MonotoneAmended ==
    /\ (Returned /\ prev.valid /\ prev.system_capacity <= system_capacity
        /\ (\/ prev.system_capacity = 0
            \/ system_capacity >= num_packets
            \/ EqualService))
          => result.loss <= prev.loss
    /\ \A j \in Packets :
          pc[j] # "unborn" =>
              /\ j \in DOMAIN service_time
              /\ service_time[j] = mean_srv_time * stream[j + 1].srv

\* A second call with a larger capacity returned with fewer losses than the
\* first, which lost customers with a service duration of their own.
C4_Witness ==
    /\ Returned
    /\ prev.valid
    /\ prev.system_capacity < system_capacity
    /\ EqualService
    /\ mean_srv_time > 1
    /\ 0 < result.loss
    /\ result.loss < prev.loss
    /\ prev.loss < num_packets

\* ---- C5 -------------------------------------------------------------------
\* C5: a call with the trace flag switched, everything else the same, drops
\* the same customers, records the same waits and returns the same loss
\* count.
C5_TraceIndependent ==
    (Returned /\ prev.valid /\ prev.system_capacity = system_capacity)
        => /\ result.loss = prev.loss
           /\ wait_times = prev.wait_times
           /\ Dropped = {j \in Packets : prev.pc[j] = "dropped"}

\* ---- C6 -------------------------------------------------------------------
\* C6: the run never gets stuck with events pending, and once env.run() has
\* returned the queue is empty and every generated customer is dropped or
\* departed; nobody is left waiting for the server.
C6_Terminates ==
    /\ (~Returned => ENABLED Next)
    /\ (Returned =>
           /\ queue = <<>>
           /\ put_queue = <<>>
           /\ Terminal = Packets)

\* ---- C7 -------------------------------------------------------------------
\* C7: packets are spawned in index order, packet 0 arrives at time 0 and
\* packet j+1 arrives exactly gap_j after packet j, gap_j being the gap
\* drawn together with packet j's service duration; when the run has
\* returned exactly num_packets packets have arrived.
C7_Arrivals ==
    /\ \A j \in Packets :
          pc[j] # "unborn" =>
              /\ \A k \in Packets : k < j => pc[k] \notin {"unborn", "spawned"}
              /\ Len(stream) > j
              /\ service_time[j] = mean_srv_time * stream[j + 1].srv
    /\ \A j \in DOMAIN arrv_time :
          /\ j \in Packets
          /\ (j = 0 => arrv_time[j] = 0)
          /\ (j > 0 => /\ (j - 1) \in DOMAIN arrv_time
                       /\ arrv_time[j] = arrv_time[j - 1] + mean_ia_time * stream[j].ia)
    /\ (Returned => DOMAIN arrv_time = Packets /\ Len(stream) = num_packets)

\* Three packets have arrived, after one zero and one non-zero gap.
C7_Witness ==
    /\ Returned
    /\ num_packets >= 3
    /\ arrv_time[1] = arrv_time[0]
    /\ arrv_time[2] > arrv_time[1]

\* ---- C8 -------------------------------------------------------------------
\* C8: (in a traced run already) the generator schedules no timeout after
\* spawning the last packet, and the clock of a finished run stands at the
\* time the last customer left.
C8_NoTrailingWait ==
    trace =>
    /\ \A k \in 1 .. Len(queue) :
          queue[k].kind = "timeout_src" => queue[k].who < num_packets - 1
    /\ (Returned /\ num_packets > 0 => now = LastLeft)

\* ---- C9 -------------------------------------------------------------------
\* C9: a traced run whose capacity is at least num_packets never loses a
\* customer.
C9_NoLossWhenRoomy ==
    (trace /\ system_capacity >= num_packets) =>
        /\ loss = 0
        /\ Dropped = {}
        /\ (Returned => result.loss = 0)

\* Such a run returned after all of its (two or more) customers were in the
\* system together.
C9_Witness ==
    /\ trace
    /\ system_capacity >= num_packets
    /\ num_packets >= 2
    /\ waiting = num_packets
    /\ Idle

\* ---- C10 ------------------------------------------------------------------
\* C10 (as claimed): with num_packets = 0 the event queue is empty from the
\* start and nothing is lost or recorded (in a traced run already).
C10_QueueEmptyAtOnce ==
    (trace /\ num_packets = 0) =>
        /\ queue = <<>>
        /\ loss = 0
        /\ wait_times = <<>>

\* C10 (amended): with num_packets = 0 no packet is created, nothing is lost
\* or recorded, the clock stays at 0 and the only events ever queued are the
\* generator's own start and end, one at a time: never a timeout or a
\* resource event; the run returns loss 0 and the mean of no waits.
C10_EmptyRun ==
    num_packets = 0 =>
        /\ loss = 0
        /\ wait_times = <<>>
        /\ waiting = 0
        /\ now = 0
        /\ DOMAIN arrv_time = {} /\ DOMAIN service_time = {}
        /\ stream = <<>>
        /\ Len(queue) <= 1
        /\ \A k \in 1 .. Len(queue) : queue[k].kind \in {"init_src", "end_src"}
        /\ (~Returned /\ queue = <<>> => srcpc = "done" /\ ENABLED Return)
        /\ (Returned => result = [mean |-> [num |-> 0, den |-> 0], loss |-> 0])

\* An empty run has returned.
C10_Witness ==
    /\ num_packets = 0
    /\ Returned
    /\ srcpc = "done"

\* ---- the driver's theoretical blocking probability ------------------------
\* The driver computes with floats; the model computes the same expressions
\* with exact fractions [num, den], den > 0, in lowest terms.
MaxRate == 4       \* lmd and miu range over 1..MaxRate
MaxCap == 3        \* k ranges over 1..MaxCap

Abs(x) == IF x < 0 THEN -x ELSE x

RECURSIVE Gcd(_, _)
Gcd(a, b) == IF b = 0 THEN a ELSE Gcd(b, a % b)

\* The number n / d, d # 0.
Frac(n, d) ==
    LET g == Gcd(Abs(n), Abs(d))
        sg == IF d < 0 THEN -1 ELSE 1
    IN  [num |-> sg * (n \div g), den |-> sg * (d \div g)]

FAdd(a, b) == Frac(a.num * b.den + b.num * a.den, a.den * b.den)

FSub(a, b) == Frac(a.num * b.den - b.num * a.den, a.den * b.den)

FMul(a, b) == Frac(a.num * b.num, a.den * b.den)

\* a / b, b # 0
FDiv(a, b) == Frac(a.num * b.den, a.den * b.num)

\* a ** n
RECURSIVE FPow(_, _)
FPow(a, n) == IF n = 0 THEN Frac(1, 1) ELSE FMul(a, FPow(a, n - 1))

\* rho = lmd / miu; p0 = (1 - rho) / (1-rho**(k+1)); pn_sum = 0.  With
\* lmd = miu the divisor is 0.0 and the driver ends in ZeroDivisionError.
TheoryStart ==
    /\ theory.stage \in {"idle", "done"}
    /\ \E k \in 1 .. MaxCap, lmd \in 1 .. MaxRate, miu \in 1 .. MaxRate :
          LET rho == Frac(lmd, miu)
          IN  theory' =
                IF lmd = miu
                THEN [stage |-> "error"]
                ELSE [stage  |-> "loop",
                      k      |-> k,
                      rho    |-> rho,
                      p0     |-> FDiv(FSub(Frac(1, 1), rho),
                                      FSub(Frac(1, 1), FPow(rho, k + 1))),
                      j      |-> 0,
                      pn_sum |-> Frac(0, 1)]
    /\ UNCHANGED <<params, stream, simstate, prev>>

\* for j in range(k): pn = (rho ** j) * p0; pn_sum = pn_sum + pn
TheoryLoop ==
    /\ theory.stage = "loop"
    /\ theory.j < theory.k
    /\ LET pn == FMul(FPow(theory.rho, theory.j), theory.p0)
       IN  theory' = [theory EXCEPT !.pn_sum = FAdd(@, pn), !.j = @ + 1]
    /\ UNCHANGED <<params, stream, simstate, prev>>

\* pk = (rho ** k) * p0; PB_the = pk / pn_sum
TheoryDone ==
    /\ theory.stage = "loop"
    /\ theory.j = theory.k
    /\ LET pk == FMul(FPow(theory.rho, theory.k), theory.p0)
       IN  theory' = [stage  |-> "done",
                      k      |-> theory.k,
                      rho    |-> theory.rho,
                      pk     |-> pk,
                      PB_the |-> FDiv(pk, theory.pn_sum)]
    /\ UNCHANGED <<params, stream, simstate, prev>>

TheoryNext == TheoryStart \/ TheoryLoop \/ TheoryDone

\* The driver computes the theoretical values before it runs a simulation.
TheoryInit ==
    /\ Init
    /\ system_capacity = 0
    /\ num_packets = 0
    /\ ~trace
    /\ mean_srv_time = mean_ia_time

TheorySpec == TheoryInit /\ [][TheoryNext]_vars

\* ---- C11 ------------------------------------------------------------------
\* C11: a call with an invalid parameter (a mean that is not positive, a
\* negative system_capacity or a negative num_packets) is rejected before it
\* runs: no customer is created, no statistic is recorded and no result is
\* returned.
C11_InvalidRejected ==
    (mean_ia_time <= 0 \/ mean_srv_time <= 0 \/ system_capacity < 0
        \/ num_packets < 0) =>
        /\ \A j \in Packets : pc[j] = "unborn"
        /\ waiting = 0
        /\ loss = 0
        /\ wait_times = <<>>
        /\ ~Returned

\* ---- C12 ------------------------------------------------------------------
\* The call in progress has the parameters of the first call, whose record
\* is in prev: it is the second call, made right after the first, or the
\* third, made after a second call with another capacity and trace flag.
SameCall ==
    /\ prev.valid
    /\ prev.system_capacity = system_capacity
    /\ prev.trace = trace

InSystem == InState({"queued", "service"})

\* C13: with tracing on, the step that follows a customer's arrival drops it
\* exactly when system_capacity customers are already queued or in service:
\* then the occupancy goes back by one and the loss count up by one;
\* with fewer in the system the customer issues its request and nothing is
\* lost.
C13_AdmissionExact ==
    [][\A j \in Packets :
          (trace /\ pc[j] = "arrived") =>
              IF Cardinality(InSystem) >= system_capacity
              THEN /\ pc'[j] = "dropped"
                   /\ waiting' = waiting - 1
                   /\ loss' = loss + 1
              ELSE /\ pc'[j] = "queued"
                   /\ waiting' = waiting
                   /\ loss' = loss]_vars

\* After a drop, a customer arrives at a system that has room for it.
C13_Witness ==
    /\ trace
    /\ loss >= 1
    /\ \E j \in Packets :
          /\ pc[j] = "arrived"
          /\ InSystem # {}
          /\ Cardinality(InSystem) < system_capacity

\* ---- C14 ------------------------------------------------------------------
\* C14: with tracing on, len(waiting) between two dispatches is the number
\* of customers in the server's line or in service, which is also the
\* number of requests the server holds; inside a customer's arrival step
\* the arrival itself is counted on top; and it is 0 once the run is over.
C14_OccupancyCounts ==
    trace =>
        /\ waiting = Cardinality(InState({"arrived", "queued", "service"}))
        /\ (Idle => /\ waiting = Cardinality(InSystem)
                    /\ waiting = Len(users) + Len(put_queue))
        /\ (Returned => waiting = 0)

\* Between two dispatches one customer is in service and another waits,
\* after one has departed and one was dropped.
C14_Witness ==
    /\ trace
    /\ Idle
    /\ InState({"service"}) # {}
    /\ InState({"queued"}) # {}
    /\ Departed # {}
    /\ Dropped # {}

\* ---- C15 ------------------------------------------------------------------
\* The customers that resumed from yield request, and env.now when customer
\* j did.
Served == {grants[k].who : k \in 1 .. Len(grants)}

GrantTime(j) == grants[CHOOSE k \in 1 .. Len(grants) : grants[k].who = j].time

\* C15: the server has at most one holder and at most one customer is in
\* service; the customer in service is the holder and its service ends
\* exactly service_time after its grant; a departed customer left exactly
\* service_time after its grant; and a grant comes only after every customer
\* granted earlier has left.
C15_MutualExclusion ==
    /\ Len(users) <= 1
    /\ Cardinality(InState({"service"})) <= 1
    /\ \A j \in InState({"service"}) :
          /\ users = <<j>>
          /\ j \in Served
          /\ Cardinality({k \in 1 .. Len(queue) :
                 queue[k] = Ev(GrantTime(j) + service_time[j], NORMAL,
                               "timeout_pkt", j)}) = 1
    /\ \A j \in Departed :
          /\ j \in Served
          /\ left_time[j] = GrantTime(j) + service_time[j]
    /\ \A k, l \in 1 .. Len(grants) :
          k < l => /\ grants[k].who \in Departed
                   /\ left_time[grants[k].who] <= grants[l].time

\* A customer is in the middle of a service that takes time while another
\* waits for the server, after an earlier service that took time.
C15_Witness ==
    /\ \E j \in InState({"service"}) :
          /\ service_time[j] > 0
          /\ now < GrantTime(j) + service_time[j]
    /\ put_queue # <<>>
    /\ \E j \in Departed : service_time[j] > 0

\* ---- C16 ------------------------------------------------------------------
\* The customers that issued a request for the server.
Admitted == InState({"queued", "service", "departed"})

\* C16: customers request the server in the order of their indexes, which
\* is the order of their arrivals; the server's line keeps that order; the
\* grants, each with its entry in wait_times, come in that order too: a
\* customer is granted only after every admitted customer before it.
C16_Fifo ==
    /\ Len(wait_times) = Len(grants)
    /\ \A i, j \in Admitted : i < j => arrv_time[i] <= arrv_time[j]
    /\ \A k, l \in 1 .. Len(put_queue) : k < l => put_queue[k] < put_queue[l]
    /\ \A k, l \in 1 .. Len(grants) :
          k < l => /\ grants[k].who < grants[l].who
                   /\ grants[k].time <= grants[l].time
    /\ \A i, j \in Admitted : (i < j /\ j \in Served) => i \in Served
    /\ \A k \in 1 .. Len(put_queue) : \A j \in Served : j < put_queue[k]

\* Two customers stood in the server's line together behind a holder (the
\* second arrived before the first was granted, and both had to wait), and
\* both have been granted since; now two customers stand in the line again
\* behind a holder in service.
C16_Witness ==
    /\ \E k, l \in 1 .. Len(grants) :
          /\ k < l
          /\ grants[k].who \notin foundFree
          /\ grants[l].who \notin foundFree
          /\ arrv_time[grants[l].who] < grants[k].time
          /\ wait_times[k] > 0
          /\ wait_times[l] > 0
    /\ Len(put_queue) >= 2
    /\ users # <<>>
    /\ pc[users[1]] = "service"

\* ---- C17 ------------------------------------------------------------------
\* C17: a dropped customer never holds the server, never stands in its
\* line and has no grant, and when the run has returned wait_times has one
\* entry for every customer that was not lost.
C17_OneWaitPerAdmitted ==
    /\ \A j \in Dropped :
          /\ j \notin Served
          /\ \A k \in 1 .. Len(users) : users[k] # j
          /\ \A k \in 1 .. Len(put_queue) : put_queue[k] # j
    /\ (Returned => Len(wait_times) = num_packets - result.loss)

\* ---- C18 ------------------------------------------------------------------
\* C18: the wait recorded for a customer is the time of its grant minus the
\* time of its arrival and is not negative; it is 0 for a customer that
\* found the server without holder and without line when it requested it;
\* for every other customer it is the time from its arrival to the moment
\* the customer granted just before it left.
C18_WaitTime ==
    /\ Len(wait_times) = Len(grants)
    /\ \A k \in 1 .. Len(grants) :
          LET j == grants[k].who
          IN  /\ wait_times[k] = grants[k].time - arrv_time[j]
              /\ wait_times[k] >= 0
              /\ (j \in foundFree => wait_times[k] = 0)
              /\ (j \notin foundFree =>
                     /\ k > 1
                     /\ grants[k - 1].who \in Departed
                     /\ wait_times[k] =
                            left_time[grants[k - 1].who] - arrv_time[j])

\* One customer was served at once after an earlier service, another had to
\* wait for the customer before it to leave.
C18_Witness ==
    /\ \E k \in 2 .. Len(grants) : grants[k].who \in foundFree
    /\ \E k \in 2 .. Len(grants) :
          /\ grants[k].who \notin foundFree
          /\ wait_times[k] > 0
          /\ arrv_time[grants[k].who] > 0

\* ---- C20 ------------------------------------------------------------------
\* C20 as stated: between two dispatches the server is never without holder
\* while a request stands in its line, and a customer that had to wait is
\* granted at the time the customer before it left.
C20_NeverFreeWithLine ==
    /\ (Idle /\ put_queue # <<>> => users # <<>>)
    /\ \A k \in 2 .. Len(grants) :
          grants[k].who \notin foundFree =>
              grants[k].time = left_time[grants[k - 1].who]

\* C20 amended: while a request stands in the server's line, either the
\* server has a holder that has not left yet, or the holder has just left
\* and its Release event is in the event queue at the current time, so the
\* server is without holder for no span of virtual time; and a customer
\* that had to wait is granted at the time the customer before it left.
C20_WorkConserving ==
    /\ put_queue # <<>> =>
          \/ /\ users # <<>>
             /\ pc[users[1]] \in {"queued", "service"}
          \/ /\ users = <<>>
             /\ \E k \in 1 .. Len(queue) :
                   /\ queue[k].kind = "release"
                   /\ queue[k].time = now
    /\ \A k \in 2 .. Len(grants) :
          grants[k].who \notin foundFree =>
              grants[k].time = left_time[grants[k - 1].who]

\* The holder has left, its Release event is not dispatched yet and a
\* customer stands in the line; an earlier customer was granted at the time
\* the one before it left, after waiting.
C20_Witness ==
    /\ Idle
    /\ users = <<>>
    /\ put_queue # <<>>
    /\ \E k \in 2 .. Len(grants) :
          /\ grants[k].who \notin foundFree
          /\ wait_times[k] > 0

\* ---- C19 ------------------------------------------------------------------
\* C19: the value PB_the the driver computes for rho # 1 and k >= 1 is
\* rho^k (1 - rho) / (1 - rho^(k+1)), compared as fractions by
\* cross-multiplication.
C19_ClosedForm ==
    theory.stage = "done" =>
        LET one == Frac(1, 1)
            closed == FDiv(FMul(FPow(theory.rho, theory.k), FSub(one, theory.rho)),
                           FSub(one, FPow(theory.rho, theory.k + 1)))
        IN  theory.PB_the.num * closed.den = closed.num * theory.PB_the.den

====
